---- MODULE Spec2Model ----
(***************************************************************************)
(* Model of "Python Net/chat_server/command.py": the Command variants,     *)
(* the lazily built tag registry (Command.get_command) and the             *)
(* CommandInvoker (store_command, send_all, serialize, set_receiver,       *)
(* unserialize).                                                           *)
(*                                                                         *)
(* Python values are tagged records [k |-> kind, v |-> payload].  A str    *)
(* that holds JSON text is kept apart from a str that does not parse as    *)
(* JSON, so json.loads can fail as it does in Python.  An exception is a   *)
(* record [exc, line]: the exception class and the line of command.py on   *)
(* which it is raised.                                                     *)
(***************************************************************************)
EXTENDS Integers, Sequences, FiniteSets, TLC

VARIABLES commands, receiver, all_command, last, wire, todo, threads

vars == <<commands, receiver, all_command, last, wire, todo, threads>>

\* Longest buffer, and longest batch on the wire, that the model explores.
MaxBuf == 2

\* Most calls of get_command one thread makes.
MaxResolves == 2

(***************************************************************************)
(* Python values                                                           *)
(***************************************************************************)
None == [k |-> "None"]
\* An attribute that is annotated on the class but was never assigned.
Unset == [k |-> "unset"]
\* A str whose content is not JSON text.
Str(s) == [k |-> "str", v |-> s]
Num(n) == [k |-> "int", v |-> n]
List(xs) == [k |-> "list", v |-> xs]
\* A dict: a sequence of <<key, value>> in insertion order, keys unique.
Dict(items) == [k |-> "dict", v |-> items]
\* A str that holds the JSON text of document doc.  The members of an
\* object in a text are a sequence of <<key, value>> that may repeat a key.
Text(doc) == [k |-> "text", v |-> doc]
\* A ClientHandler instance.
Handler(r) == [k |-> "handler", v |-> r]

IsStr(x) == x.k \in {"str", "text"}

NoErr == [exc |-> "none", line |-> 0]
Raise(exc, line) == [exc |-> exc, line |-> line]
Ok(v) == [err |-> NoErr, val |-> v]
Fail(exc, line) == [err |-> Raise(exc, line), val |-> None]

(***************************************************************************)
(* json.dumps / json.loads, as far as command.py uses them                 *)
(***************************************************************************)
HasKey(items, key) == \E i \in 1..Len(items) : items[i][1] = key
KeyIndex(items, key) == CHOOSE i \in 1..Len(items) : items[i][1] = key

\* d[key] = value on a dict: a present key keeps its place, a new one is appended.
DictSet(items, key, value) ==
    IF HasKey(items, key)
    THEN [items EXCEPT ![KeyIndex(items, key)] = <<key, value>>]
    ELSE Append(items, <<key, value>>)

RECURSIVE DictFromPairs(_, _)
DictFromPairs(pairs, acc) ==
    IF pairs = <<>> THEN acc
    ELSE DictFromPairs(Tail(pairs), DictSet(acc, Head(pairs)[1], Head(pairs)[2]))

\* What json.dumps accepts among the values of the model.
RECURSIVE IsJsonable(_)
IsJsonable(x) ==
    CASE x.k \in {"str", "text", "int", "None"} -> TRUE
      [] x.k = "list" -> \A i \in 1..Len(x.v) : IsJsonable(x.v[i])
      [] x.k = "dict" -> \A i \in 1..Len(x.v) : IsJsonable(x.v[i][2])
      [] OTHER -> FALSE

\* json.dumps(obj), called on line `line`.
json_dumps(obj, line) ==
    IF IsJsonable(obj) THEN Ok(Text(obj)) ELSE Fail("TypeError", line)

\* Mutant: a loads that hands back a value that is decoded already.
json_loads_lenient(s, line) ==
    IF s.k \in {"dict", "list"} THEN Ok(s)
    ELSE IF ~IsStr(s) THEN Fail("TypeError", line)
    ELSE IF s.k = "str" THEN Fail("JSONDecodeError", line)
    ELSE IF s.v.k = "dict" THEN Ok(Dict(DictFromPairs(s.v.v, <<>>)))
    ELSE Ok(s.v)

\* json.loads(s), called on line `line`: a TypeError for a non-str, a
\* JSONDecodeError for a str that is not JSON text; an object becomes a dict
\* in which a repeated key keeps its first place and its last value.
json_loads(s, line) ==
    IF ~IsStr(s) THEN Fail("TypeError", line)
    ELSE IF s.k = "str" THEN Fail("JSONDecodeError", line)
    ELSE IF s.v.k = "dict" THEN Ok(Dict(DictFromPairs(s.v.v, <<>>)))
    ELSE Ok(s.v)

\* obj[key] with a str key, on line `line`.
subscript(obj, key, line) ==
    IF obj.k = "dict"
    THEN IF HasKey(obj.v, key) THEN Ok(obj.v[KeyIndex(obj.v, key)][2])
         ELSE Fail("KeyError", line)
    ELSE Fail("TypeError", line)

\* What `for x in obj` iterates over: the items of a list, the keys of a dict.
iterate(obj, line) ==
    CASE obj.k = "list" -> Ok(obj.v)
      [] obj.k = "dict" -> Ok([i \in 1..Len(obj.v) |-> Str(obj.v[i][1])])
      [] obj.k \in {"int", "None"} -> Fail("TypeError", line)

(***************************************************************************)
(* The Command variants.  An instance is a record: its class name, its     *)
(* client_handler, and one attribute per annotated field, Unset until it   *)
(* is assigned.                                                            *)
(***************************************************************************)

\* ---- Register ----
Register_init(client_handler) ==
    [class |-> "Register", client_handler |-> client_handler,
     username |-> Unset, password |-> Unset]

\* The receiver call an execute makes.
Call(handler, method, args) == [recv |-> handler, method |-> method, args |-> args]

Register_execute(self) ==
    IF self.client_handler.k # "handler" THEN Fail("AttributeError", 71)
    ELSE IF self.username = Unset \/ self.password = Unset THEN Fail("AttributeError", 71)
    ELSE Ok(Call(self.client_handler, "register", <<self.username, self.password>>))

Register_serialize(self) ==
    IF self.username = Unset THEN Fail("AttributeError", 76)
    ELSE IF self.password = Unset THEN Fail("AttributeError", 77)
    ELSE json_dumps(Dict(<< <<"type", Str(self.class)>>,
                            <<"username", self.username>>,
                            <<"password", self.password>> >>), 79)

\* Mutant: lines 83 and 84 read each other's key.
Register_unserialize_swapped(self, serialized) ==
    LET data == json_loads(serialized, 82) IN
    IF data.err # NoErr THEN [err |-> data.err, val |-> self]
    ELSE LET u == subscript(data.val, "password", 83) IN
         IF u.err # NoErr THEN [err |-> u.err, val |-> self]
         ELSE LET self1 == [self EXCEPT !.username = u.val]
                  p == subscript(data.val, "username", 84) IN
              IF p.err # NoErr THEN [err |-> p.err, val |-> self1]
              ELSE Ok([self1 EXCEPT !.password = p.val])

Register_unserialize(self, serialized) ==
    LET data == json_loads(serialized, 82) IN
    IF data.err # NoErr THEN [err |-> data.err, val |-> self]
    ELSE LET u == subscript(data.val, "username", 83) IN
         IF u.err # NoErr THEN [err |-> u.err, val |-> self]
         ELSE LET self1 == [self EXCEPT !.username = u.val]
                  p == subscript(data.val, "password", 84) IN
              IF p.err # NoErr THEN [err |-> p.err, val |-> self1]
              ELSE Ok([self1 EXCEPT !.password = p.val])

\* ---- Login ----
Login_init(client_handler) ==
    [class |-> "Login", client_handler |-> client_handler,
     username |-> Unset, password |-> Unset]

Login_execute(self) ==
    IF self.client_handler.k # "handler" THEN Fail("AttributeError", 97)
    ELSE IF self.username = Unset \/ self.password = Unset THEN Fail("AttributeError", 97)
    ELSE Ok(Call(self.client_handler, "login", <<self.username, self.password>>))

Login_serialize(self) ==
    IF self.username = Unset THEN Fail("AttributeError", 102)
    ELSE IF self.password = Unset THEN Fail("AttributeError", 103)
    ELSE json_dumps(Dict(<< <<"type", Str(self.class)>>,
                            <<"username", self.username>>,
                            <<"password", self.password>> >>), 106)

\* Mutant: the two subscripts of lines 110-111 exchanged.
Login_unserialize_swapped(self, serialized) ==
    LET data == json_loads(serialized, 109) IN
    IF data.err # NoErr THEN [err |-> data.err, val |-> self]
    ELSE LET u == subscript(data.val, "password", 110) IN
         IF u.err # NoErr THEN [err |-> u.err, val |-> self]
         ELSE LET self1 == [self EXCEPT !.username = u.val]
                  p == subscript(data.val, "username", 111) IN
              IF p.err # NoErr THEN [err |-> p.err, val |-> self1]
              ELSE Ok([self1 EXCEPT !.password = p.val])

Login_unserialize(self, serialized) ==
    LET data == json_loads(serialized, 109) IN
    IF data.err # NoErr THEN [err |-> data.err, val |-> self]
    ELSE LET u == subscript(data.val, "username", 110) IN
         IF u.err # NoErr THEN [err |-> u.err, val |-> self]
         ELSE LET self1 == [self EXCEPT !.username = u.val]
                  p == subscript(data.val, "password", 111) IN
              IF p.err # NoErr THEN [err |-> p.err, val |-> self1]
              ELSE Ok([self1 EXCEPT !.password = p.val])

\* ---- Logout ----
Logout_init(client_handler) ==
    [class |-> "Logout", client_handler |-> client_handler]

Logout_execute(self) ==
    IF self.client_handler.k # "handler" THEN Fail("AttributeError", 121)
    ELSE Ok(Call(self.client_handler, "logout", <<>>))

Logout_serialize(self) ==
    json_dumps(Dict(<< <<"type", Str(self.class)>> >>), 127)

Logout_unserialize(self, serialized) == Ok(self)

\* ---- Create ----
Create_init(client_handler) ==
    [class |-> "Create", client_handler |-> client_handler, name |-> Unset]

Create_execute(self) ==
    IF self.client_handler.k # "handler" THEN Fail("AttributeError", 142)
    ELSE IF self.name = Unset THEN Fail("AttributeError", 142)
    ELSE Ok(Call(self.client_handler, "create", <<self.name>>))

Create_serialize(self) ==
    IF self.name = Unset THEN Fail("AttributeError", 147)
    ELSE json_dumps(Dict(<< <<"type", Str(self.class)>>,
                            <<"name", self.name>> >>), 149)

\* Mutant: data.get('name') in place of data['name'] on line 153.
Create_unserialize_lenient(self, serialized) ==
    LET data == json_loads(serialized, 152) IN
    IF data.err # NoErr THEN [err |-> data.err, val |-> self]
    ELSE LET n == subscript(data.val, "name", 153) IN
         IF n.err # NoErr THEN Ok([self EXCEPT !.name = None])
         ELSE Ok([self EXCEPT !.name = n.val])

Create_unserialize(self, serialized) ==
    LET data == json_loads(serialized, 152) IN
    IF data.err # NoErr THEN [err |-> data.err, val |-> self]
    ELSE LET n == subscript(data.val, "name", 153) IN
         IF n.err # NoErr THEN [err |-> n.err, val |-> self]
         ELSE Ok([self EXCEPT !.name = n.val])

\* ---- Join ----
Join_init(client_handler) ==
    [class |-> "Join", client_handler |-> client_handler, name |-> Unset]

\* Mutant: the body pasted from Create.execute, still calling create.
Join_execute_pasted(self) ==
    IF self.client_handler.k # "handler" THEN Fail("AttributeError", 165)
    ELSE IF self.name = Unset THEN Fail("AttributeError", 165)
    ELSE Ok(Call(self.client_handler, "create", <<self.name>>))

Join_execute(self) ==
    IF self.client_handler.k # "handler" THEN Fail("AttributeError", 165)
    ELSE IF self.name = Unset THEN Fail("AttributeError", 165)
    ELSE Ok(Call(self.client_handler, "join", <<self.name>>))

Join_serialize(self) ==
    IF self.name = Unset THEN Fail("AttributeError", 170)
    ELSE json_dumps(Dict(<< <<"type", Str(self.class)>>,
                            <<"name", self.name>> >>), 172)

Join_unserialize(self, serialized) ==
    LET data == json_loads(serialized, 175) IN
    IF data.err # NoErr THEN [err |-> data.err, val |-> self]
    ELSE LET n == subscript(data.val, "name", 176) IN
         IF n.err # NoErr THEN [err |-> n.err, val |-> self]
         ELSE Ok([self EXCEPT !.name = n.val])

\* ---- Leave ----
Leave_init(client_handler) ==
    [class |-> "Leave", client_handler |-> client_handler]

Leave_execute(self) ==
    IF self.client_handler.k # "handler" THEN Fail("AttributeError", 187)
    ELSE Ok(Call(self.client_handler, "leave", <<>>))

Leave_serialize(self) ==
    json_dumps(Dict(<< <<"type", Str(self.class)>> >>), 193)

Leave_unserialize(self, serialized) == Ok(self)

\* ---- Message ----
Message_init(client_handler) ==
    [class |-> "Message", client_handler |-> client_handler, message |-> Unset]

Message_execute(self) ==
    IF self.client_handler.k # "handler" THEN Fail("AttributeError", 208)
    ELSE IF self.message = Unset THEN Fail("AttributeError", 208)
    ELSE Ok(Call(self.client_handler, "send_message", <<self.message>>))

\* Mutant: line 213 reads an attribute the class never assigns.
Message_serialize_typo(self) == Fail("AttributeError", 213)

Message_serialize(self) ==
    IF self.message = Unset THEN Fail("AttributeError", 213)
    ELSE json_dumps(Dict(<< <<"type", Str(self.class)>>,
                            <<"message", self.message>> >>), 215)

Message_unserialize(self, serialized) ==
    LET data == json_loads(serialized, 218) IN
    IF data.err # NoErr THEN [err |-> data.err, val |-> self]
    ELSE LET m == subscript(data.val, "message", 219) IN
         IF m.err # NoErr THEN [err |-> m.err, val |-> self]
         ELSE Ok([self EXCEPT !.message = m.val])

\* ---- Close ----
Close_init(client_handler) ==
    [class |-> "Close", client_handler |-> client_handler]

Close_execute(self) ==
    IF self.client_handler.k # "handler" THEN Fail("AttributeError", 229)
    ELSE Ok(Call(self.client_handler, "close", <<>>))

Close_serialize(self) ==
    json_dumps(Dict(<< <<"type", Str(self.class)>> >>), 235)

Close_unserialize(self, serialized) == Ok(self)

(***************************************************************************)
(* Dynamic dispatch: a method call on a Command goes to the method of the  *)
(* instance's class; cmd_class(receiver) runs the __init__ of the class.   *)
(***************************************************************************)
Command_execute(self) ==
    CASE self.class = "Register" -> Register_execute(self)
      [] self.class = "Login" -> Login_execute(self)
      [] self.class = "Logout" -> Logout_execute(self)
      [] self.class = "Create" -> Create_execute(self)
      [] self.class = "Join" -> Join_execute(self)
      [] self.class = "Leave" -> Leave_execute(self)
      [] self.class = "Message" -> Message_execute(self)
      [] self.class = "Close" -> Close_execute(self)

Command_serialize(self) ==
    CASE self.class = "Register" -> Register_serialize(self)
      [] self.class = "Login" -> Login_serialize(self)
      [] self.class = "Logout" -> Logout_serialize(self)
      [] self.class = "Create" -> Create_serialize(self)
      [] self.class = "Join" -> Join_serialize(self)
      [] self.class = "Leave" -> Leave_serialize(self)
      [] self.class = "Message" -> Message_serialize(self)
      [] self.class = "Close" -> Close_serialize(self)

Command_unserialize(self, serialized) ==
    CASE self.class = "Register" -> Register_unserialize(self, serialized)
      [] self.class = "Login" -> Login_unserialize(self, serialized)
      [] self.class = "Logout" -> Logout_unserialize(self, serialized)
      [] self.class = "Create" -> Create_unserialize(self, serialized)
      [] self.class = "Join" -> Join_unserialize(self, serialized)
      [] self.class = "Leave" -> Leave_unserialize(self, serialized)
      [] self.class = "Message" -> Message_unserialize(self, serialized)
      [] self.class = "Close" -> Close_unserialize(self, serialized)

Command_new(cmd_class, client_handler) ==
    CASE cmd_class = "Register" -> Register_init(client_handler)
      [] cmd_class = "Login" -> Login_init(client_handler)
      [] cmd_class = "Logout" -> Logout_init(client_handler)
      [] cmd_class = "Create" -> Create_init(client_handler)
      [] cmd_class = "Join" -> Join_init(client_handler)
      [] cmd_class = "Leave" -> Leave_init(client_handler)
      [] cmd_class = "Message" -> Message_init(client_handler)
      [] cmd_class = "Close" -> Close_init(client_handler)

(***************************************************************************)
(* The registry: Command.all_command and Command.get_command               *)
(***************************************************************************)
\* Command.__subclasses__(): the direct subclasses, in definition order.
Command_subclasses ==
    <<"Register", "Login", "Logout", "Create", "Join", "Leave", "Message", "Close">>

\* {cmd.__name__: cmd for cmd in Command.__subclasses__()}
BuildAllCommand ==
    Dict([i \in 1..Len(Command_subclasses) |->
            <<Command_subclasses[i], Command_subclasses[i]>>])

\* Mutant: a failed lookup drops the table (Command.all_command = None in an
\* except KeyError branch, then raise).
get_command_forgetful(table, type_) ==
    LET table1 == IF table = None THEN BuildAllCommand ELSE table IN
    IF type_.k \in {"list", "dict"}
    THEN [err |-> Raise("TypeError", 19), val |-> None, all_command |-> None]
    ELSE IF type_.k = "str" /\ HasKey(table1.v, type_.v)
    THEN [err |-> NoErr, val |-> table1.v[KeyIndex(table1.v, type_.v)][2],
          all_command |-> table1]
    ELSE [err |-> Raise("KeyError", 19), val |-> None, all_command |-> None]

\* Command.get_command(type_) against the class attribute `table`: the class
\* found (or the exception) and the class attribute afterwards.
get_command(table, type_) ==
    LET table1 == IF table = None THEN BuildAllCommand ELSE table IN
    IF type_.k \in {"list", "dict"}
    THEN [err |-> Raise("TypeError", 19), val |-> None, all_command |-> table1]
    ELSE IF type_.k = "str" /\ HasKey(table1.v, type_.v)
    THEN [err |-> NoErr, val |-> table1.v[KeyIndex(table1.v, type_.v)][2],
          all_command |-> table1]
    ELSE [err |-> Raise("KeyError", 19), val |-> None, all_command |-> table1]

(***************************************************************************)
(* CommandInvoker                                                          *)
(***************************************************************************)
\* [command.serialize() for command in self.commands]: the list of texts, or
\* the first exception.
RECURSIVE SerializeEach(_, _)
SerializeEach(cmds, data) ==
    IF cmds = <<>> THEN Ok(data)
    ELSE LET one == Command_serialize(Head(cmds)) IN
         IF one.err # NoErr THEN one
         ELSE SerializeEach(Tail(cmds), Append(data, one.val))

\* Mutant: the list of line 41 built from the end of the buffer.
CommandInvoker_serialize_reversed(cmds) ==
    LET data == SerializeEach([i \in 1..Len(cmds) |-> cmds[Len(cmds) + 1 - i]], <<>>) IN
    IF data.err # NoErr THEN data ELSE json_dumps(List(data.val), 42)

\* CommandInvoker.serialize on a buffer.
CommandInvoker_serialize(cmds) ==
    LET data == SerializeEach(cmds, <<>>) IN
    IF data.err # NoErr THEN data ELSE json_dumps(List(data.val), 42)

\* Mutant: each command is executed as soon as it is decoded, so that a
\* decode ends with the calls of the commands it made.
UnserializeResult_executing(err, cmds, table, made) ==
    [err |-> err, commands |-> cmds, all_command |-> table, made |-> made,
     calls |-> [i \in 1..made |-> "call"]]

\* What an unserialize leaves: the exception (or NoErr), the buffer and the
\* registry afterwards, how many commands were constructed, and the receiver
\* calls made on the way.
UnserializeResult(err, cmds, table, made) ==
    [err |-> err, commands |-> cmds, all_command |-> table, made |-> made,
     calls |-> <<>>]

\* Mutant: the decoded commands added to the buffer, self.commands += data.
BufferOnSuccess_extend(old, data) == old \o data

\* Line 58, self.commands = data: the decoded list replaces the buffer.
BufferOnSuccess(old, data) == data

\* Mutant: the loop appends to self.commands itself, so that an exception
\* leaves what was decoded before it.
BufferOnError_partial(old, data) == data

\* self.commands after an exception in the loop: line 58 is not reached, the
\* local list `data` is dropped and the attribute keeps its value.
BufferOnError(old, data) == old

\* The loop of CommandInvoker.unserialize over the entries still to decode:
\* `old` is self.commands, `data` the list built so far.
RECURSIVE UnserializeLoop(_, _, _, _, _, _)
UnserializeLoop(entries, recv, old, table, data, made) ==
    IF entries = <<>>
    THEN UnserializeResult(NoErr, BufferOnSuccess(old, data), table, made)
    ELSE
      LET command == Head(entries)
          json_command == json_loads(command, 52)
      IN
      IF json_command.err # NoErr
      THEN UnserializeResult(json_command.err, BufferOnError(old, data), table, made)
      ELSE
        LET type_ == subscript(json_command.val, "type", 53) IN
        IF type_.err # NoErr
        THEN UnserializeResult(type_.err, BufferOnError(old, data), table, made)
        ELSE
          LET cmd_class == get_command(table, type_.val) IN
          IF cmd_class.err # NoErr
          THEN UnserializeResult(cmd_class.err, BufferOnError(old, data),
                                 cmd_class.all_command, made)
          ELSE
            LET fresh == Command_new(cmd_class.val, recv)
                decoded == Command_unserialize(fresh, command)
            IN
            IF decoded.err # NoErr
            THEN UnserializeResult(decoded.err, BufferOnError(old, data),
                                   cmd_class.all_command, made + 1)
            ELSE UnserializeLoop(Tail(entries), recv, old, cmd_class.all_command,
                                 Append(data, decoded.val), made + 1)

\* Mutant: __init__ sets self._receiver = None and line 48 is gone.
CommandInvoker_unserialize_unchecked(recv, old, table, serialized) ==
    LET loaded == json_loads(serialized, 51) IN
    IF loaded.err # NoErr THEN UnserializeResult(loaded.err, old, table, 0)
    ELSE
      LET entries == iterate(loaded.val, 51) IN
      IF entries.err # NoErr THEN UnserializeResult(entries.err, old, table, 0)
      ELSE UnserializeLoop(entries.val, IF recv = Unset THEN None ELSE recv,
                           old, table, <<>>, 0)

\* CommandInvoker.unserialize(serialized) on an invoker whose _receiver
\* attribute is recv (Unset: never assigned) and whose buffer is old.
CommandInvoker_unserialize(recv, old, table, serialized) ==
    IF recv = Unset THEN UnserializeResult(Raise("AttributeError", 48), old, table, 0)
    ELSE IF recv = None THEN UnserializeResult(Raise("AssertionError", 48), old, table, 0)
    ELSE
      LET loaded == json_loads(serialized, 51) IN
      IF loaded.err # NoErr THEN UnserializeResult(loaded.err, old, table, 0)
      ELSE
        LET entries == iterate(loaded.val, 51) IN
        IF entries.err # NoErr THEN UnserializeResult(entries.err, old, table, 0)
        ELSE UnserializeLoop(entries.val, recv, old, table, <<>>, 0)

\* The loop of CommandInvoker.send_all: the calls made so far, and the
\* exception that ended it.  The receiver is an external collaborator: it
\* raises in its failAt-th call of this send_all (0: in none).
RECURSIVE SendLoop(_, _, _)
SendLoop(cmds, calls, failAt) ==
    IF cmds = <<>> THEN [err |-> NoErr, calls |-> calls]
    ELSE LET one == Command_execute(Head(cmds)) IN
         IF one.err # NoErr THEN [err |-> one.err, calls |-> calls]
         ELSE IF Len(calls) + 1 = failAt
         THEN [err |-> Raise("ReceiverError", 38), calls |-> Append(calls, one.val)]
         ELSE SendLoop(Tail(cmds), Append(calls, one.val), failAt)

Reverse(xs) == [i \in 1..Len(xs) |-> xs[Len(xs) + 1 - i]]

\* Mutant: the buffer walked from its end.
CommandInvoker_send_all_reversed(cmds, failAt) == SendLoop(Reverse(cmds), <<>>, failAt)

\* Mutant: each execute wrapped in try/except, the exception raised again
\* once the loop is over.
CommandInvoker_send_all_continue(cmds, failAt) ==
    LET full == SendLoop(cmds, <<>>, 0) IN
    [err |-> IF failAt \in 1..Len(full.calls) THEN Raise("ReceiverError", 38)
             ELSE full.err,
     calls |-> full.calls]

CommandInvoker_send_all(cmds, failAt) == SendLoop(cmds, <<>>, failAt)

(***************************************************************************)
(* Inputs                                                                  *)
(***************************************************************************)
Usernames == {Str("alice")}
Passwords == {Str("pw1")}
Names == {Str("lobby")}
Messages == {Str("hi")}

Receivers == {Handler("r1"), Handler("r2")}

\* The two invoker instances: A on the sending side, B on the receiving side.
Invokers == {"A", "B"}

\* The commands a caller builds: constructed with the default
\* client_handler, each annotated field then assigned or left alone.
BuiltCommands ==
    {[Register_init(None) EXCEPT !.username = u, !.password = p] :
        u \in Usernames \cup {Unset}, p \in Passwords \cup {Unset}}
    \cup {[Login_init(None) EXCEPT !.username = u, !.password = p] :
        u \in Usernames \cup {Unset}, p \in Passwords \cup {Unset}}
    \cup {[Create_init(None) EXCEPT !.name = n] : n \in Names \cup {Unset}}
    \cup {[Join_init(None) EXCEPT !.name = n] : n \in Names \cup {Unset}}
    \cup {[Message_init(None) EXCEPT !.message = m] : m \in Messages \cup {Unset}}
    \cup {Logout_init(None), Leave_init(None), Close_init(None)}

\* The attributes a class annotates besides client_handler.
Fields(class) ==
    CASE class \in {"Register", "Login"} -> <<"username", "password">>
      [] class \in {"Create", "Join"} -> <<"name">>
      [] class = "Message" -> <<"message">>
      [] OTHER -> <<>>

Populated(c) == \A i \in 1..Len(Fields(c.class)) : c[Fields(c.class)[i]] # Unset

SeqsUpTo(S, n) == UNION {[1..m -> S] : m \in 0..n}

\* What an invoker puts on the wire from a buffer of populated commands.
WireBlobs(cmdset) ==
    {CommandInvoker_serialize(cs).val :
        cs \in SeqsUpTo({c \in cmdset : Populated(c)}, MaxBuf)}

Entry(pairs) == Text(Dict(pairs))
MessageEntry == Entry(<< <<"type", Str("Message")>>, <<"message", Str("hi")>> >>)
TeleportEntry == Entry(<< <<"type", Str("Teleport")>> >>)
RegisterNoPassword ==
    Entry(<< <<"type", Str("Register")>>, <<"username", Str("alice")>> >>)
\* A record, not the text of one.
LogoutRecord == Dict(<< <<"type", Str("Logout")>> >>)
MessageNumber == Entry(<< <<"type", Str("Message")>>, <<"message", Num(5)>> >>)

\* Entries on which the decode stops.
FailingEntries ==
    { TeleportEntry,
      Entry(<< <<"username", Str("alice")>> >>),
      Str("garbage"),
      LogoutRecord,
      Entry(<< <<"type", Str("Register")>>, <<"password", Str("pw1")>> >>),
      RegisterNoPassword,
      Entry(<< <<"type", Str("Login")>>, <<"password", Str("pw1")>> >>),
      Entry(<< <<"type", Str("Login")>>, <<"username", Str("alice")>> >>),
      Entry(<< <<"type", Str("Create")>> >>),
      Entry(<< <<"type", Str("Join")>> >>),
      Entry(<< <<"type", Str("Message")>> >>) }

\* Entries no serialize of this module writes, which the decode accepts.
OddEntries ==
    { MessageNumber,
      Entry(<< <<"type", Str("Register")>>, <<"username", Str("alice")>>,
               <<"password", None>> >>),
      Entry(<< <<"type", Str("Login")>>, <<"username", Dict(<<>>)>>,
               <<"password", Str("pw1")>> >>),
      Entry(<< <<"type", Str("Create")>>, <<"name", List(<<>>)>> >>),
      Entry(<< <<"type", Str("Join")>>, <<"name", Num(5)>> >>),
      Entry(<< <<"message", Str("hi")>>, <<"type", Str("Message")>>,
               <<"extra", Str("x")>> >>) }

\* Batches of at most MaxBuf entries: one entry of `entries`, with valid
\* entries before or after it.
Around(entries) ==
    {Text(List(pre \o <<e>> \o post)) :
        e \in entries,
        pre \in SeqsUpTo({MessageEntry}, MaxBuf - 1),
        post \in {q \in SeqsUpTo({MessageEntry}, MaxBuf - 1) : Len(q) <= 1}}

\* Blobs that are not a JSON array.
NonArrayBlobs ==
    {Str("garbage"), Text(Num(7)), Text(Dict(<<>>)),
     Text(Dict(<< <<"type", Str("Logout")>> >>))}

LengthOk(blob) == blob.k = "text" /\ blob.v.k = "list" => Len(blob.v.v) <= MaxBuf

ForeignBlobs ==
    {b \in Around(FailingEntries \cup OddEntries) : LengthOk(b)} \cup NonArrayBlobs

(***************************************************************************)
(* State: the two invokers (commands, receiver), the process-wide registry *)
(* (all_command), what the last operation did (last), the batch in flight  *)
(* from A to B (wire) and the commands A's caller has still to store       *)
(* (todo), and the threads inside Command.get_command (threads).           *)
(*                                                                         *)
(* last: the operation, the invoker, the exception it raised (or NoErr),   *)
(* the length of the buffer when it began (had), the commands it           *)
(* constructed (made), the blob it was given (blob), the blob it returned  *)
(* (ret) and the receiver calls made during it (calls).  After a send_all  *)
(* it also tells in which of its calls the receiver raised (failed, 0 for  *)
(* none).                                                                  *)
(***************************************************************************)
Done(op, self, err, had, made, blob, ret, calls) ==
    [op |-> op, self |-> self, err |-> err, had |-> had, made |-> made,
     blob |-> blob, ret |-> ret, calls |-> calls]

NoWire == [from |-> "nobody", blob |-> None]

\* The threads that call Command.get_command on their own.
Threads == {"T1", "T2"}

\* A thread outside get_command, which has called it `resolves` times and
\* has evaluated the comprehension of line 18 `builds` times; `result` is
\* what its last call returned or raised.
IdleThread ==
    [pc |-> "idle", type_ |-> None, built |-> None, result |-> None,
     resolves |-> 0, builds |-> 0]

\* CommandInvoker.__init__ for both invokers: an empty buffer, no _receiver
\* attribute; the class attribute Command.all_command is None.
InitInvokers ==
    /\ commands = [i \in Invokers |-> <<>>]
    /\ receiver = [i \in Invokers |-> Unset]
    /\ all_command = None
    /\ last = Done("init", "A", NoErr, 0, 0, None, None, <<>>)
    /\ threads = [t \in Threads |-> IdleThread]

\* Mutant: self.commands.insert(0, command).
StoreCommand_front(self, command) ==
    /\ Len(commands[self]) < MaxBuf
    /\ commands' = [commands EXCEPT ![self] = <<command>> \o @]
    /\ last' = Done("store_command", self, NoErr, Len(commands[self]), 0,
                    None, None, <<>>)
    /\ UNCHANGED <<receiver, all_command>>

StoreCommand(self, command) ==
    /\ Len(commands[self]) < MaxBuf
    /\ commands' = [commands EXCEPT ![self] = Append(@, command)]
    /\ last' = Done("store_command", self, NoErr, Len(commands[self]), 0,
                    None, None, <<>>)
    /\ UNCHANGED <<receiver, all_command>>

\* Mutant: send_all ends with self.commands = [].
SendAll_clearing(self, failAt) ==
    \E r \in {CommandInvoker_send_all(commands[self], failAt)} :
    /\ last' = Done("send_all", self, r.err, Len(commands[self]), 0,
                    None, None, r.calls)
                 @@ [failed |-> IF r.err.exc = "ReceiverError" THEN failAt ELSE 0]
    /\ commands' = [commands EXCEPT ![self] = <<>>]
    /\ UNCHANGED <<receiver, all_command>>

SendAll(self, failAt) ==
    \E r \in {CommandInvoker_send_all(commands[self], failAt)} :
    /\ last' = Done("send_all", self, r.err, Len(commands[self]), 0,
                    None, None, r.calls)
                 @@ [failed |-> IF r.err.exc = "ReceiverError" THEN failAt ELSE 0]
    /\ UNCHANGED <<commands, receiver, all_command>>

Serialize(self) ==
    \E r \in {CommandInvoker_serialize(commands[self])} :
    /\ last' = Done("serialize", self, r.err, Len(commands[self]), 0,
                    None, r.val, <<>>)
    /\ UNCHANGED <<commands, receiver, all_command>>

\* Mutant: set_receiver also rebinds the buffered commands.
SetReceiver_rebinding(self, r) ==
    /\ receiver' = [receiver EXCEPT ![self] = r]
    /\ commands' = [commands EXCEPT ![self] =
                      [i \in 1..Len(@) |-> [@[i] EXCEPT !.client_handler = r]]]
    /\ last' = Done("set_receiver", self, NoErr, Len(commands[self]), 0,
                    None, None, <<>>)
    /\ UNCHANGED all_command

SetReceiver(self, r) ==
    /\ receiver' = [receiver EXCEPT ![self] = r]
    /\ last' = Done("set_receiver", self, NoErr, Len(commands[self]), 0,
                    None, None, <<>>)
    /\ UNCHANGED <<commands, all_command>>

Unserialize(self, serialized) ==
    \E r \in {CommandInvoker_unserialize(receiver[self], commands[self],
                                        all_command, serialized)} :
    /\ commands' = [commands EXCEPT ![self] = r.commands]
    /\ all_command' = r.all_command
    /\ last' = Done("unserialize", self, r.err, Len(commands[self]), r.made,
                    serialized, None, r.calls)
    /\ UNCHANGED receiver

(***************************************************************************)
(* Spec: every operation of one invoker, in any order.  Its caller builds  *)
(* commands of one class of each shape (two fields, one field, no field),  *)
(* fully assigned or never assigned; the blobs that arrive are the         *)
(* serialized batches of such commands and foreign ones.                   *)
(***************************************************************************)
ShapeClasses == {"Register", "Message", "Logout"}

NeverAssigned(c) == \A i \in 1..Len(Fields(c.class)) : c[Fields(c.class)[i]] = Unset

StoreInputs ==
    {c \in BuiltCommands :
        c.class \in ShapeClasses /\ (Populated(c) \/ NeverAssigned(c))}

BlobInputs ==
    WireBlobs(StoreInputs)
    \cup {b \in Around({TeleportEntry, RegisterNoPassword, LogoutRecord}) : LengthOk(b)}
    \cup {Str("garbage"), Text(Num(7)), Text(List(<<MessageNumber>>))}

Init ==
    /\ InitInvokers
    /\ wire = NoWire
    /\ todo = <<>>

DoStore ==
    /\ \E command \in StoreInputs : StoreCommand("B", command)
    /\ UNCHANGED <<wire, todo, threads>>

DoSendAll ==
    /\ \E failAt \in 0..MaxBuf : SendAll("B", failAt)
    /\ UNCHANGED <<wire, todo, threads>>

DoSerialize ==
    /\ Serialize("B")
    /\ UNCHANGED <<wire, todo, threads>>

DoSetReceiver ==
    /\ \E r \in Receivers : SetReceiver("B", r)
    /\ UNCHANGED <<wire, todo, threads>>

DoUnserialize ==
    /\ \E serialized \in BlobInputs : Unserialize("B", serialized)
    /\ UNCHANGED <<wire, todo, threads>>

Next ==
    \/ DoStore
    \/ DoSendAll
    \/ DoSerialize
    \/ DoSetReceiver
    \/ DoUnserialize

Spec == Init /\ [][Next]_vars

(***************************************************************************)
(* SpecBatch: one exchange.  A's caller stores the commands of `todo` and  *)
(* serializes; the batch travels; B's caller, who may have stored a        *)
(* command of its own, binds a receiver (or None), decodes the batch, and  *)
(* then sends and serializes.  Or the batch in flight is a foreign one.    *)
(* Every class and every sequence of classes up to MaxBuf is a batch.      *)
(***************************************************************************)
InitBatch ==
    /\ InitInvokers
    /\ \/ wire = NoWire /\ todo \in SeqsUpTo(BuiltCommands, MaxBuf)
       \/ wire \in {[from |-> "foreign", blob |-> b] : b \in ForeignBlobs}
          /\ todo = <<>>

ClientStore ==
    /\ wire = NoWire
    /\ todo # <<>>
    /\ StoreCommand("A", Head(todo))
    /\ todo' = Tail(todo)
    /\ UNCHANGED <<wire, threads>>

ClientSerialize ==
    /\ todo = <<>>
    /\ wire = NoWire \/ last.op = "serialize"
    /\ Serialize("A")
    /\ wire' = IF last'.err = NoErr THEN [from |-> "A", blob |-> last'.ret] ELSE NoWire
    /\ UNCHANGED <<todo, threads>>

ServerStore ==
    /\ wire # NoWire
    /\ commands["B"] = <<>>
    /\ receiver["B"] = Unset
    /\ StoreCommand("B", Close_init(None))
    /\ UNCHANGED <<wire, todo, threads>>

ServerSetReceiver ==
    /\ wire # NoWire
    /\ receiver["B"] = Unset
    /\ \E r \in Receivers \cup {None} : SetReceiver("B", r)
    /\ UNCHANGED <<wire, todo, threads>>

ServerUnserialize ==
    /\ wire # NoWire
    /\ last.op \in {"serialize", "init", "store_command", "set_receiver"}
    /\ Unserialize("B", wire.blob)
    /\ UNCHANGED <<wire, todo, threads>>

ServerSendAll ==
    /\ last.self = "B"
    /\ last.op \in {"unserialize", "send_all", "serialize"}
    /\ \E failAt \in 0..MaxBuf : SendAll("B", failAt)
    /\ UNCHANGED <<wire, todo, threads>>

ServerSerialize ==
    /\ last.self = "B"
    /\ last.op \in {"unserialize", "send_all", "serialize"}
    /\ Serialize("B")
    /\ UNCHANGED <<wire, todo, threads>>

NextBatch ==
    \/ ClientStore
    \/ ClientSerialize
    \/ ServerStore
    \/ ServerSetReceiver
    \/ ServerUnserialize
    \/ ServerSendAll
    \/ ServerSerialize

SpecBatch == InitBatch /\ [][NextBatch]_vars

(***************************************************************************)
(* SpecRace: two threads call Command.get_command with no invoker between  *)
(* them.  The interpreter may switch threads between any two bytecodes, so *)
(* the steps of one call are: the test of line 17, the evaluation of the   *)
(* comprehension of line 18 (the whole dict is built before it is          *)
(* visible), the assignment of line 18 to the class attribute, and the     *)
(* subscript of line 19.                                                   *)
(***************************************************************************)
ResolveTags == {Str("Logout"), Str("Message"), Str("Teleport")}

\* A thread calls get_command(type_).
ThreadCall(t) ==
    /\ threads[t].pc = "idle"
    /\ threads[t].resolves < MaxResolves
    /\ \E type_ \in ResolveTags :
          threads' = [threads EXCEPT ![t].pc = "line17", ![t].type_ = type_,
                                     ![t].result = None,
                                     ![t].resolves = @ + 1]
    /\ UNCHANGED <<commands, receiver, all_command, last, wire, todo>>

\* Line 17: if Command.all_command is None
ThreadCheck(t) ==
    /\ threads[t].pc = "line17"
    /\ threads' = [threads EXCEPT ![t].pc =
                      IF all_command = None THEN "line18" ELSE "line19"]
    /\ UNCHANGED <<commands, receiver, all_command, last, wire, todo>>

\* Line 18, right-hand side: the dict is built.
ThreadBuild(t) ==
    /\ threads[t].pc = "line18"
    /\ threads' = [threads EXCEPT ![t].pc = "line18store",
                                  ![t].built = BuildAllCommand,
                                  ![t].builds = @ + 1]
    /\ UNCHANGED <<commands, receiver, all_command, last, wire, todo>>

\* Line 18, the assignment Command.all_command = ...
ThreadStore(t) ==
    /\ threads[t].pc = "line18store"
    /\ all_command' = threads[t].built
    /\ threads' = [threads EXCEPT ![t].pc = "line19", ![t].built = None]
    /\ UNCHANGED <<commands, receiver, last, wire, todo>>

\* Line 19: return Command.all_command[type_]
ThreadLookup(t) ==
    /\ threads[t].pc = "line19"
    /\ \E r \in {get_command(all_command, threads[t].type_)} :
          threads' = [threads EXCEPT ![t].pc = "idle",
                                     ![t].result = [err |-> r.err, val |-> r.val]]
    /\ UNCHANGED <<commands, receiver, all_command, last, wire, todo>>

DoThreadCall == \E t \in Threads : ThreadCall(t)
DoThreadCheck == \E t \in Threads : ThreadCheck(t)
DoThreadBuild == \E t \in Threads : ThreadBuild(t)
DoThreadStore == \E t \in Threads : ThreadStore(t)
DoThreadLookup == \E t \in Threads : ThreadLookup(t)

NextRace ==
    \/ DoThreadCall
    \/ DoThreadCheck
    \/ DoThreadBuild
    \/ DoThreadStore
    \/ DoThreadLookup

SpecRace == Init /\ [][NextRace]_vars

(***************************************************************************)
(* What the claims speak of                                                *)
(***************************************************************************)
\* The receiver call each variant's execute is to make, by the table of the
\* receiver interface: method name and arguments for each class.
DispatchTable(c) ==
    CASE c.class = "Register" ->
           Call(c.client_handler, "register", <<c.username, c.password>>)
      [] c.class = "Login" ->
           Call(c.client_handler, "login", <<c.username, c.password>>)
      [] c.class = "Logout" -> Call(c.client_handler, "logout", <<>>)
      [] c.class = "Create" -> Call(c.client_handler, "create", <<c.name>>)
      [] c.class = "Join" -> Call(c.client_handler, "join", <<c.name>>)
      [] c.class = "Leave" -> Call(c.client_handler, "leave", <<>>)
      [] c.class = "Message" ->
           Call(c.client_handler, "send_message", <<c.message>>)
      [] c.class = "Close" -> Call(c.client_handler, "close", <<>>)

\* The call command c of the sending side is to cause on handler h.
ExpectedCall(c, h) == DispatchTable([c EXCEPT !.client_handler = h])

AllPopulated(cmds) == \A i \in 1..Len(cmds) : Populated(cmds[i])

HasReceiver(c) == c.client_handler \in Receivers

SameVariantAndFields(c, d) ==
    /\ c.class = d.class
    /\ \A i \in 1..Len(Fields(c.class)) :
          d[Fields(c.class)[i]] = c[Fields(c.class)[i]]

\* B has just run send_all on the decode of the batch A serialized, and the
\* receiver raised in none of its calls.
SentBatchOfA ==
    /\ last.op = "send_all"
    /\ last.self = "B"
    /\ wire.from = "A"
    /\ receiver["B"] \in Receivers
    /\ last.err.exc # "ReceiverError"

\* C1 (order preservation): when the commands c1..cn stored in A are
\* serialized, the blob is decoded on B with a receiver bound and B runs
\* send_all, the receiver gets exactly n calls, the i-th being the method of
\* ci's class with ci's field values.
C1_OrderPreserved ==
    SentBatchOfA =>
      /\ last.err = NoErr
      /\ last.calls = [i \in 1..Len(commands["A"]) |->
                          ExpectedCall(commands["A"][i], receiver["B"])]

C1_Witness ==
    /\ SentBatchOfA
    /\ Len(commands["A"]) = 2
    /\ commands["A"][1].class = "Register"
    /\ commands["A"][2].class = "Message"
    /\ Len(last.calls) = 2

\* C2 (round trip): a command of any class with its fields assigned, encoded
\* by A and decoded through the registry by B, comes out as a command of the
\* same class whose fields equal the original's.
C2_RoundTrip ==
    (/\ last.op = "unserialize"
     /\ last.self = "B"
     /\ wire.from = "A"
     /\ receiver["B"] \in Receivers)
    => /\ last.err = NoErr
       /\ Len(commands["B"]) = Len(commands["A"])
       /\ \A i \in 1..Len(commands["A"]) :
             SameVariantAndFields(commands["A"][i], commands["B"][i])

C2_Witness ==
    /\ last.op = "unserialize"
    /\ last.self = "B"
    /\ wire.from = "A"
    /\ receiver["B"] \in Receivers
    /\ Len(commands["B"]) = 2
    /\ commands["B"][1].class = "Login"
    /\ commands["B"][1].username = Str("alice")
    /\ commands["B"][1].password = Str("pw1")
    /\ commands["B"][2].class = "Join"
    /\ commands["B"][2].name = Str("lobby")

\* C10 (execute dispatch): each execute of send_all makes one receiver call,
\* the one DispatchTable gives for the command's class, with the command's
\* fields as arguments; with a receiver and populated fields on every
\* command, and a receiver that does not raise, send_all makes one call per
\* command and raises nothing.
C10_ExecuteDispatch ==
    last.op = "send_all" =>
      LET buffer == commands[last.self] IN
      /\ Len(last.calls) <= Len(buffer)
      /\ \A i \in 1..Len(last.calls) : last.calls[i] = DispatchTable(buffer[i])
      /\ (/\ \A i \in 1..Len(buffer) : HasReceiver(buffer[i]) /\ Populated(buffer[i])
          /\ last.err.exc # "ReceiverError")
         => last.err = NoErr /\ Len(last.calls) = Len(buffer)

C10_Witness ==
    /\ last.op = "send_all"
    /\ last.err = NoErr
    /\ Len(last.calls) = 2
    /\ last.calls[1] = Call(Handler("r2"), "join", <<Str("lobby")>>)
    /\ last.calls[2] = Call(Handler("r2"), "login", <<Str("alice"), Str("pw1")>>)

\* ---- reading a blob, for the claims about decode ----
RegisteredNames ==
    {"Register", "Login", "Logout", "Create", "Join", "Leave", "Message", "Close"}

IsArray(blob) == blob.k = "text" /\ blob.v.k = "list"
EntriesOf(blob) == IF IsArray(blob) THEN blob.v.v ELSE <<>>
IsRecordText(e) == e.k = "text" /\ e.v.k = "dict"
MemberIndexes(e, key) == {i \in 1..Len(e.v.v) : e.v.v[i][1] = key}
HasMember(e, key) == MemberIndexes(e, key) # {}
\* The value of the last member of that name.
Member(e, key) ==
    e.v.v[CHOOSE i \in MemberIndexes(e, key) :
             \A j \in MemberIndexes(e, key) : j <= i][2]
KnownTag(e) ==
    /\ IsRecordText(e)
    /\ HasMember(e, "type")
    /\ Member(e, "type") \in {Str(n) : n \in RegisteredNames}
UnknownTag(e) ==
    /\ IsRecordText(e)
    /\ HasMember(e, "type")
    /\ Member(e, "type") \notin {Str(n) : n \in RegisteredNames}
DeclaredFields(e) == Fields(Member(e, "type").v)
MissingField(e) ==
    /\ KnownTag(e)
    /\ \E i \in 1..Len(DeclaredFields(e)) : ~HasMember(e, DeclaredFields(e)[i])
\* The place of the first entry that lacks a declared field; 0 if there is none.
FirstMissing(blob) ==
    LET es == EntriesOf(blob)
        at == {i \in 1..Len(es) : MissingField(es[i])}
    IN IF at = {} THEN 0 ELSE CHOOSE i \in at : \A j \in at : i <= j

\* C3 (unknown tag rejection): with a receiver bound, a decode of a blob in
\* which some entry carries a type that is no registered name raises, and
\* leaves every buffer as it was.
C3_UnknownTagRejected ==
    [][(/\ last'.op = "unserialize"
        /\ receiver[last'.self] \in Receivers
        /\ \E i \in 1..Len(EntriesOf(last'.blob)) : UnknownTag(EntriesOf(last'.blob)[i]))
       => (last'.err # NoErr /\ commands' = commands)]_vars

\* A decode that met the unknown type in the second entry, after a valid
\* first one, on a buffer of two commands.
C3_Witness ==
    /\ last.op = "unserialize"
    /\ receiver["B"] \in Receivers
    /\ Len(EntriesOf(last.blob)) = 2
    /\ KnownTag(EntriesOf(last.blob)[1])
    /\ UnknownTag(EntriesOf(last.blob)[2])
    /\ last.err = Raise("KeyError", 19)
    /\ last.made = 1
    /\ Len(commands["B"]) = 2

\* C4 (precondition enforcement): on an invoker on which set_receiver was
\* never called, a decode raises before it constructs a command and leaves
\* every buffer as it was.
C4_NoReceiverNoDecode ==
    [][(last'.op = "unserialize" /\ receiver[last'.self] = Unset)
       => (last'.err # NoErr /\ last'.made = 0 /\ commands' = commands)]_vars

\* A decode of a valid batch of two entries, after two stores, with no
\* receiver ever set.
C4_Witness ==
    /\ last.op = "unserialize"
    /\ receiver["B"] = Unset
    /\ last.blob \in WireBlobs(StoreInputs)
    /\ Len(EntriesOf(last.blob)) = 2
    /\ last.err # NoErr
    /\ last.made = 0
    /\ Len(commands["B"]) = 2

\* C5 (missing field): with a receiver bound, a decode of a blob in which an
\* entry of a registered type lacks a declared field raises at the first
\* such entry or before it, constructs no command for a later entry, and
\* leaves every buffer as it was.
C5_MissingFieldAbandons ==
    [][(/\ last'.op = "unserialize"
        /\ receiver[last'.self] \in Receivers
        /\ FirstMissing(last'.blob) > 0)
       => (/\ last'.err # NoErr
           /\ last'.made <= FirstMissing(last'.blob)
           /\ commands' = commands)]_vars

\* A decode that stopped at a first entry without its field, a valid entry
\* after it, on a buffer that held a command.
C5_Witness ==
    /\ last.op = "unserialize"
    /\ receiver["B"] \in Receivers
    /\ Len(EntriesOf(last.blob)) = 2
    /\ FirstMissing(last.blob) = 1
    /\ Member(EntriesOf(last.blob)[1], "type") = Str("Create")
    /\ last.err = Raise("KeyError", 153)
    /\ last.made = 1
    /\ last.had = 1
    /\ Len(commands["B"]) = 1

\* C6 (wrong kind rejected), as claimed: no buffered command carries a field
\* value that is not a string.
C6_NoNonStringField ==
    \A s \in Invokers : \A i \in 1..Len(commands[s]) :
       \A j \in 1..Len(Fields(commands[s][i].class)) :
          LET value == commands[s][i][Fields(commands[s][i].class)[j]] IN
          value = Unset \/ IsStr(value)

\* The command entry e decodes to, bound to handler h.
DecodedCommand(e, h) ==
    [f \in {"class", "client_handler"} \cup
           {DeclaredFields(e)[i] : i \in 1..Len(DeclaredFields(e))} |->
        IF f = "class" THEN Member(e, "type").v
        ELSE IF f = "client_handler" THEN h
        ELSE Member(e, f)]

IsPrefix(xs, ys) == Len(xs) <= Len(ys) /\ \A i \in 1..Len(xs) : xs[i] = ys[i]

\* C7 (wholesale replace): after a successful decode of an array of n
\* entries the buffer is exactly the n commands decoded from them, in
\* order; a send_all that follows calls the receiver for those commands
\* only.
C7_WholesaleReplace ==
    [][/\ (last'.op = "unserialize" /\ last'.err = NoErr /\ IsArray(last'.blob))
          => commands'[last'.self] =
                [i \in 1..Len(EntriesOf(last'.blob)) |->
                    DecodedCommand(EntriesOf(last'.blob)[i], receiver[last'.self])]
       /\ (/\ last.op = "unserialize" /\ last.err = NoErr /\ IsArray(last.blob)
           /\ last'.op = "send_all" /\ last'.self = last.self)
          => IsPrefix(last'.calls,
                      [i \in 1..Len(EntriesOf(last.blob)) |->
                          DispatchTable(DecodedCommand(EntriesOf(last.blob)[i],
                                                       receiver[last.self]))])
      ]_vars

\* A decode of one entry that replaced a buffer of two commands.
C7_Witness ==
    /\ last.op = "unserialize"
    /\ last.err = NoErr
    /\ last.had = 2
    /\ Len(EntriesOf(last.blob)) = 1
    /\ Len(commands["B"]) = 1
    /\ HasReceiver(commands["B"][1])

\* The entry serialize is to write for command c: the type, then the
\* declared fields in their order.
EncodingOf(c) ==
    Entry(<< <<"type", Str(c.class)>> >> \o
          [i \in 1..Len(Fields(c.class)) |->
              <<Fields(c.class)[i], c[Fields(c.class)[i]]>>])

\* C8 (serialize is non-consuming and order-preserving): on a buffer of n
\* populated commands serialize returns the array whose i-th element is the
\* encoding of the i-th command, and changes no buffer and no receiver; a
\* second serialize right after returns the same blob.
C8_SerializeFrame ==
    [][/\ (last'.op = "serialize" /\ AllPopulated(commands[last'.self]))
          => /\ last'.err = NoErr
             /\ last'.ret = Text(List([i \in 1..Len(commands[last'.self]) |->
                                          EncodingOf(commands[last'.self][i])]))
             /\ commands' = commands
             /\ receiver' = receiver
       /\ (last.op = "serialize" /\ last'.op = "serialize" /\ last'.self = last.self)
          => last'.ret = last.ret
      ]_vars

\* B, a receiver bound, has serialized its buffer of two decoded commands of
\* different classes.
C8_Witness ==
    /\ last.op = "serialize"
    /\ last.self = "B"
    /\ receiver["B"] \in Receivers
    /\ last.err = NoErr
    /\ Len(commands["B"]) = 2
    /\ AllPopulated(commands["B"])
    /\ commands["B"][1].class # commands["B"][2].class
    /\ Len(EntriesOf(last.ret)) = 2

\* C9 (serialize never fails), as claimed: no serialize raises.
C9_SerializeNeverFails == last.op = "serialize" => last.err = NoErr

\* C9, amended: serialize raises nothing when every declared field of every
\* buffered command has been assigned (by the caller, a string, or by
\* decode).
C9_SerializeTotalWhenPopulated ==
    (last.op = "serialize" /\ AllPopulated(commands[last.self])) => last.err = NoErr

\* A serialize of a buffer that holds a decoded command and a stored one.
C9_Witness ==
    /\ last.op = "serialize"
    /\ last.err = NoErr
    /\ Len(commands["B"]) = 2
    /\ HasReceiver(commands["B"][1])
    /\ commands["B"][1].class = "Message"
    /\ commands["B"][2].client_handler = None
    /\ commands["B"][2].class = "Register"

\* C11 (stop on first error): when the receiver raises in the call of the
\* k-th buffered command during send_all, the calls made are exactly those
\* of commands 1..k, once each and in buffer order, none is made for a
\* command after position k, and the exception reaches the caller.
C11_StopOnFirstError ==
    (last.op = "send_all" /\ last.err.exc = "ReceiverError") =>
       /\ last.failed \in 1..Len(commands[last.self])
       /\ Len(last.calls) = last.failed
       /\ \A i \in 1..Len(last.calls) :
             last.calls[i] = DispatchTable(commands[last.self][i])
       /\ last.err = Raise("ReceiverError", 38)

\* The receiver raised in the call of the first of two commands: one call
\* was made, none for the second command.
C11_Witness ==
    /\ last.op = "send_all"
    /\ last.err.exc = "ReceiverError"
    /\ Len(commands["B"]) = 2
    /\ HasReceiver(commands["B"][1]) /\ HasReceiver(commands["B"][2])
    /\ last.failed = 1
    /\ last.calls = <<DispatchTable(commands["B"][1])>>

\* C12 (send_all does not consume the buffer): a send_all, complete or
\* stopped by an exception, leaves every buffer as it was; a send_all right
\* after a complete one on the same invoker, complete as well, makes the
\* same calls in the same order.
C12_SendAllKeepsBuffer ==
    [][/\ last'.op = "send_all" => commands' = commands
       /\ (/\ last.op = "send_all" /\ last.err = NoErr
           /\ last'.op = "send_all" /\ last'.err = NoErr
           /\ last'.self = last.self)
          => last'.calls = last.calls
      ]_vars

\* A complete send_all of two commands, which are still in the buffer.
C12_Witness ==
    /\ last.op = "send_all"
    /\ last.err = NoErr
    /\ Len(last.calls) = 2
    /\ Len(commands["B"]) = 2
    /\ \A i \in 1..2 : last.calls[i] = DispatchTable(commands["B"][i])

\* C13 (rebinding affects only future decodes): set_receiver leaves every
\* buffer, the handlers of its commands included, as it was; a successful
\* decode binds each command it makes to the receiver then bound; send_all
\* makes each call on the handler of the command, whatever receiver is bound
\* at that time.
C13_RebindingOnlyFutureDecodes ==
    [][/\ last'.op = "set_receiver" => commands' = commands
       /\ (last'.op = "unserialize" /\ last'.err = NoErr)
          => \A i \in 1..Len(commands'[last'.self]) :
                commands'[last'.self][i].client_handler = receiver'[last'.self]
       /\ last'.op = "send_all"
          => \A i \in 1..Len(last'.calls) :
                last'.calls[i].recv = commands[last'.self][i].client_handler
      ]_vars

\* Two commands decoded while r1 was bound, r2 bound since: send_all has
\* made both calls on r1.
C13_Witness ==
    /\ last.op = "send_all"
    /\ receiver["B"] = Handler("r2")
    /\ Len(last.calls) = 2
    /\ \A i \in 1..2 : last.calls[i].recv = Handler("r1")

\* An element that is a record itself, not the text of one.
IsRecordValue(e) == e.k = "dict"
RecordHasType(e) == \E i \in 1..Len(e.v) : e.v[i][1] = "type"

\* The blob whose one element is the text of the record {type: "Logout"}.
LogoutTextBlob == Text(List(<< Entry(<< <<"type", Str("Logout")>> >>) >>))

\* C14 (record-entry blobs decode), as claimed: with a receiver bound, the
\* decode of an array whose elements are records carrying a type field
\* raises nothing.
C14_RecordEntriesAccepted ==
    (/\ last.op = "unserialize"
     /\ receiver[last.self] \in Receivers
     /\ EntriesOf(last.blob) # <<>>
     /\ \A i \in 1..Len(EntriesOf(last.blob)) :
           /\ IsRecordValue(EntriesOf(last.blob)[i])
           /\ RecordHasType(EntriesOf(last.blob)[i]))
    => last.err = NoErr

\* C14, amended: the elements of the array are strings, each the JSON text
\* of a record.  With a receiver bound, the blob whose one element is the
\* text of {type: "Logout"} is accepted and leaves one Logout bound to the
\* receiver, and a send_all right after makes exactly one call, logout()
\* with no arguments; a blob with an element that is a record itself is
\* rejected and leaves every buffer as it was.
C14_TextEntriesDecode ==
    [][/\ (/\ last'.op = "unserialize"
           /\ receiver[last'.self] \in Receivers
           /\ last'.blob = LogoutTextBlob)
          => /\ last'.err = NoErr
             /\ commands'[last'.self] = <<Logout_init(receiver[last'.self])>>
       /\ (/\ last.op = "unserialize" /\ last.err = NoErr
           /\ last.blob = LogoutTextBlob
           /\ last'.op = "send_all" /\ last'.self = last.self)
          => last'.calls = <<Call(receiver[last.self], "logout", <<>>)>>
       /\ (/\ last'.op = "unserialize"
           /\ receiver[last'.self] \in Receivers
           /\ \E i \in 1..Len(EntriesOf(last'.blob)) :
                 IsRecordValue(EntriesOf(last'.blob)[i]))
          => (last'.err # NoErr /\ commands' = commands)
      ]_vars

\* A send_all has made the one call logout() for the Logout that a decode
\* bound to the receiver.
C14_Witness ==
    /\ last.op = "send_all"
    /\ last.err = NoErr
    /\ receiver["B"] \in Receivers
    /\ commands["B"] = <<Logout_init(receiver["B"])>>
    /\ last.calls = <<Call(receiver["B"], "logout", <<>>)>>

\* The table maps exactly the eight tags, each to the class of its name.
IsEightTagTable(table) ==
    /\ table.k = "dict"
    /\ {table.v[i][1] : i \in 1..Len(table.v)} = RegisteredNames
    /\ Len(table.v) = 8
    /\ \A i \in 1..Len(table.v) : table.v[i][2] = table.v[i][1]

\* The decode that `done` tells of reached a resolve: it constructed a
\* command, or it ended on line 19.
ReachedResolve(done) == done.op = "unserialize" /\ (done.made >= 1 \/ done.err.line = 19)

\* C15 (registry built once and deterministic): the table, once built, is
\* never changed; it is built by a decode only, and by the first one that
\* reaches a resolve; it maps exactly the eight tags to the classes of their
\* names, so that a resolve against it finds the class of a registered tag,
\* fails for another, and leaves the table as it is.
C15_RegistryBuiltOnce ==
    [][/\ all_command # None => all_command' = all_command
       /\ (all_command = None /\ all_command' # None) => last'.op = "unserialize"
       /\ ReachedResolve(last') => all_command' # None
       /\ all_command' # None =>
            /\ IsEightTagTable(all_command')
            /\ \A n \in RegisteredNames :
                  get_command(all_command', Str(n)) =
                     [err |-> NoErr, val |-> n, all_command |-> all_command']
            /\ get_command(all_command', Str("Teleport")) =
                  [err |-> Raise("KeyError", 19), val |-> None,
                   all_command |-> all_command']
      ]_vars

\* A decode resolved one tag and failed to resolve the next; the table is
\* built and whole.
C15_Witness ==
    /\ last.op = "unserialize"
    /\ last.made = 1
    /\ last.err = Raise("KeyError", 19)
    /\ all_command # None
    /\ IsEightTagTable(all_command)

\* C16 (decode makes no receiver calls): a decode, whether it succeeds or
\* raises, makes no receiver call; receiver calls are made by send_all only.
\* The decode of a blob with the unregistered tag Teleport raises and makes
\* no call.
C16_DecodeMakesNoCalls ==
    /\ last.op # "send_all" => last.calls = <<>>
    /\ (/\ last.op = "unserialize"
        /\ receiver[last.self] \in Receivers
        /\ \E i \in 1..Len(EntriesOf(last.blob)) :
              EntriesOf(last.blob)[i] = TeleportEntry)
       => (last.err # NoErr /\ last.calls = <<>>)

\* With a receiver bound, a decode constructed a command for a valid entry
\* and then met Teleport: no call.
C16_Witness ==
    /\ last.op = "unserialize"
    /\ receiver["B"] \in Receivers
    /\ EntriesOf(last.blob) = <<MessageEntry, TeleportEntry>>
    /\ last.made = 1
    /\ last.err = Raise("KeyError", 19)
    /\ last.calls = <<>>

\* C17 (buffer changes only by append or replace): store_command raises
\* nothing and leaves the previous buffer with the command added at its
\* end; a step that is not a successful decode leaves every buffer a prefix
\* of what it becomes, so that no command is removed or moved.
C17_AppendOrReplaceOnly ==
    [][/\ last'.op = "store_command"
          => /\ last'.err = NoErr
             /\ Len(commands'[last'.self]) = Len(commands[last'.self]) + 1
             /\ SubSeq(commands'[last'.self], 1, Len(commands[last'.self]))
                   = commands[last'.self]
             /\ \A s \in Invokers \ {last'.self} : commands'[s] = commands[s]
       /\ ~(last'.op = "unserialize" /\ last'.err = NoErr)
          => \A s \in Invokers : IsPrefix(commands[s], commands'[s])
      ]_vars

\* A command stored behind a decoded one, which kept its place.
C17_Witness ==
    /\ last.op = "store_command"
    /\ last.had = 1
    /\ Len(commands["B"]) = 2
    /\ HasReceiver(commands["B"][1])
    /\ commands["B"][2] \in StoreInputs

\* C19 (blob fixed point): when B, with a receiver bound, has decoded the
\* blob A serialized from a buffer of populated commands, a serialize of B
\* returns a blob equal to that one, whichever receiver is bound.
C19_BlobFixedPoint ==
    (/\ last.op = "serialize"
     /\ last.self = "B"
     /\ wire.from = "A"
     /\ receiver["B"] \in Receivers)
    => (last.err = NoErr /\ last.ret = wire.blob)

\* B, bound to r2, has serialized the two commands, a Register and a
\* Message, that it decoded from A's blob.
C19_Witness ==
    /\ last.op = "serialize"
    /\ last.self = "B"
    /\ wire.from = "A"
    /\ receiver["B"] = Handler("r2")
    /\ Len(commands["B"]) = 2
    /\ commands["B"][1].class = "Register"
    /\ commands["B"][2].class = "Message"
    /\ last.ret = wire.blob
    /\ Len(EntriesOf(last.ret)) = 2

\* How many times the table has been constructed so far.
TableBuilds == threads["T1"].builds + threads["T2"].builds

\* C18 (concurrent first resolve), as claimed: under every interleaving of
\* two threads' calls the table is constructed at most once, what a thread
\* reads on line 19 is the whole table, and a resolve of a registered tag
\* raises nothing.
C18_PopulatedOnce ==
    /\ TableBuilds <= 1
    /\ all_command # None => IsEightTagTable(all_command)
    /\ \A t \in Threads :
          (/\ threads[t].pc = "idle"
           /\ threads[t].resolves > 0
           /\ threads[t].type_.v \in RegisteredNames)
          => threads[t].result.err = NoErr

====
